---- MODULE Spec2Model ----
(***************************************************************************)
(* Model of cli/src/core/managers/process-manager.ts of ao-forge:          *)
(*   - class Schedule: a setInterval-driven tick scheduler with bounded    *)
(*     consecutive-failure retries and an escalation call;                 *)
(*   - class ProcessManager: spawn / track / stop of one "aos" child       *)
(*     process and the single persisted process record.                    *)
(*                                                                         *)
(* JavaScript runs the code on one event loop.  A handler runs without     *)
(* interruption up to its next `await`; the model has one action per such  *)
(* run-to-completion segment.  The evaluate operation is the collaborator  *)
(* the tests stub: its duration and outcome are chosen by the environment. *)
(***************************************************************************)
EXTENDS Integers, FiniteSets, Sequences, TLC

(***************************************************************************)
(* Bounds                                                                  *)
(***************************************************************************)
\* largest explicit options.maxRetries tried (0 stands for "not given")
MaxRetriesOpt == 2
\* number of successful Schedule.start() calls explored
MaxStarts == 2
\* number of timer firings (tick evaluations started) explored
MaxTicks == 5
\* number of child processes spawned by one ProcessManager
MaxSpawns == 2
\* number of kill() calls explored on one child-process handle
MaxKills == 2
\* number of files and directories below the scanned root
MaxEntries == 4
\* depth of the scanned tree below the root
MaxDepth == 2
\* CLI invocations (node processes running `ao-forge process ...`) in a run
MaxInvocations == 3
\* entries of config.luaFiles
MaxLuaFiles == 2

(***************************************************************************)
(* Program constants                                                       *)
(***************************************************************************)
\* `null` of the timer field and of the process field
Null == 0
\* options.maxRetries || 3
DefaultMaxRetries == 3
\* this.processName || 'default'
DefaultName == "default"
\* an absent string (undefined, or '' which is falsy as well)
NoName == ""
\* the process names the caller and the configuration may supply
OptionNames == {NoName, "opt"}
ConfigNames == {NoName, "cfg"}
\* this.processState before the first start, and a missing record file
\* the pid of a handle whose spawn failed (undefined)
NoPid == -1
NoState == [id |-> NoName, status |-> "none", errors |-> 0]
NoRecord == [name |-> NoName, pid |-> NoPid]
\* no startAOProcess call is suspended
NoPending == [handle |-> Null, record |-> NoRecord]
\* findLuaFiles has not been called
NoScan == [raised |-> FALSE, files |-> <<>>]
\* `options = {}`: every option undefined
NoOptions ==
    [name |-> NoName, wallet |-> NoName, data |-> NoName, tagName |-> NoName,
     tagValue |-> NoName, module |-> NoName, cron |-> NoName,
     monitor |-> FALSE, sqlite |-> FALSE, gatewayUrl |-> NoName,
     cuUrl |-> NoName, muUrl |-> NoName]
\* a config without process name and without source files
NoArgConfig == [processName |-> NoName, luaFiles |-> <<>>]
\* DEFAULT_CONFIG as the module defines it, by top-level key; a value stands
\* for the whole value under the key ("[]" for the empty luaFiles list)
DefaultConfig ==
    [processName |-> "ao-process", packageManager |-> "npm", luaFiles |-> "[]"]
\* the defaults AOConfigSchema fills in for keys the parsed object lacks
SchemaDefault ==
    [processName |-> "ao-process", packageManager |-> "pnpm", luaFiles |-> "[]"]
\* z.enum(['npm', 'yarn', 'pnpm'])
PackageManagers == {"npm", "yarn", "pnpm"}
\* an object without keys
EmptyObject == [k \in {} |-> NoName]
\* ao.config.yml does not exist
NoFile == [exists |-> FALSE, raw |-> EmptyObject]
\* no ConfigManager call has returned
NoLoad == [ok |-> TRUE, value |-> EmptyObject]

VARIABLES
    \* ---- Schedule (fields) ----
    maxRetries,     \* this.options.maxRetries
    timer,          \* this.timer: Null or the id setInterval returned
    retryCount,     \* this.retryCount
    \* ---- JavaScript runtime, as far as Schedule uses it ----
    activeTimers,   \* ids of the intervals that are installed and not cleared
    nextTimer,      \* the id the next setInterval call returns
    inTick,         \* timer callbacks suspended at `await evaluateProcess(tick)`
    inStop,         \* timer callbacks suspended at `await this.stop()`
    inOnError,      \* timer callbacks suspended at `await evaluateProcess(onError)`
    \* ---- call log of the stubbed evaluateProcess and of the callbacks ----
    tickCalls,      \* evaluateProcess(tick) invocations so far
    errCalls,       \* evaluateProcess(onError) invocations so far
    escaped,        \* timer callbacks whose promise rejected
    \* ---- history of the run, used to state the properties ----
    starts,         \* successful start() calls so far
    allFailed,      \* no evaluate call has succeeded so far
    userStopped,    \* stop() has been called from outside so far
    hadSuccess,     \* some tick evaluation has succeeded
    failsSinceSuccess, \* failed tick evaluations since the last successful one
    stopSinceSuccess, \* stop() ran since the last successful one
    failsBeforeSuccess, \* failsSinceSuccess as the last successful one found it
    rejected,       \* a start() was rejected since the last successful start()
    lastOp,         \* the segment that ran last
    \* ---- ProcessManager (fields) ----
    process,        \* this.process: Null or the handle spawn returned
    processName,    \* this.processName: NoName (null) or a name
    processState,   \* this.processState: NoState (null) or the state record
    \* ---- operating system, as far as ProcessManager uses it ----
    children,       \* the ChildProcess handles spawned so far, by handle id
    file,           \* content of the record file: NoRecord or the record
    pending,        \* the startAOProcess call suspended at saveProcessInfo
    hostUp,         \* the CLI process has not died of an uncaught exception
    invocation,     \* the number of the CLI invocation that is running
    startedIn,      \* the invocation whose start made the last spawn (0: none)
    \* ---- the last startAOProcess call: its inputs and the spawn it made ----
    lastOpt,        \* options.name of the call (NoName when absent)
    lastCfg,        \* config.processName of the call (NoName when absent)
    lastArgs,       \* the argument list handed to spawn('aos', args, ...)
    \* ---- results handed to the caller ----
    pmOp,           \* the ProcessManager segment that ran last
    pmResult,       \* what the last call returned
    \* ---- the directory tree findLuaFiles scans ----
    fs,             \* the entries below the root: [path, kind]
    scanBad,        \* the directories whose readdir failed in the scan of fs
    scanResult,     \* what the findLuaFiles call on fs produced
    scanOp,         \* the step on the tree that ran last
    \* ---- one construction of the `aos` argument list ----
    argOptions,     \* the options object of the call
    argConfig,      \* the config object of the call: processName, luaFiles
    argList,        \* the argument list handed to spawn
    argOp,          \* the step on the argument list that ran last
    \* ---- ConfigManager and the module it lives in ----
    DEFAULT_CONFIG, \* the exported object DEFAULT_CONFIG as it is now
    cfgFile,        \* ao.config.yml: NoFile or what yaml.load reads from it
    cfgOp,          \* the ConfigManager step that ran last
    cfgResult       \* what the last ConfigManager call returned

schedVars == <<maxRetries, timer, retryCount, activeTimers, nextTimer,
               inTick, inStop, inOnError, tickCalls, errCalls, escaped,
               starts, allFailed, userStopped, hadSuccess, failsSinceSuccess,
               stopSinceSuccess, failsBeforeSuccess, rejected, lastOp>>

pmVars == <<process, processName, processState, children, file, pending,
            hostUp, invocation, startedIn, lastOpt, lastCfg, lastArgs,
            pmOp, pmResult>>

scanVars == <<fs, scanBad, scanResult, scanOp>>

argVars == <<argOptions, argConfig, argList, argOp>>

cfgVars == <<DEFAULT_CONFIG, cfgFile, cfgOp, cfgResult>>

vars == <<schedVars, pmVars, scanVars, argVars, cfgVars>>

(***************************************************************************)
(* Schedule                                                                *)
(***************************************************************************)

\* constructor: maxRetries: options.maxRetries || 3   (0 and undefined are falsy)
CtorMaxRetries(opt) == IF opt = 0 THEN DefaultMaxRetries ELSE opt

\* start(): `if (this.timer) throw new Error('Scheduler already running')`
AlreadyRunning_never(t) == FALSE
AlreadyRunning(t) == t # Null

\* isRunning(): this.timer !== null
isRunning == timer # Null

\* stop(): the fields after the body of stop() ran on fields (t, rc) with the
\* runtime's interval table at
StopResult_keepCount(t, at, rc) ==
    IF t # Null
    THEN [timer |-> Null, activeTimers |-> at \ {t}, retryCount |-> rc]
    ELSE [timer |-> t, activeTimers |-> at, retryCount |-> rc]
StopResult_noClear(t, at, rc) ==
    IF t # Null
    THEN [timer |-> Null, activeTimers |-> at, retryCount |-> 0]
    ELSE [timer |-> t, activeTimers |-> at, retryCount |-> rc]
StopResult(t, at, rc) ==
    IF t # Null
    THEN [timer |-> Null, activeTimers |-> at \ {t}, retryCount |-> 0]
    ELSE [timer |-> t, activeTimers |-> at, retryCount |-> rc]

\* the retry counter after a tick evaluation resolved: this.retryCount = 0
CountAfterSuccess_keep(rc) == rc
CountAfterSuccess(rc) == 0

\* the escalation test of the catch branch: this.retryCount >= maxRetries
MustEscalate(rc, max) == rc >= max

\* the fields after `new Schedule(...)` and `new ProcessManager()`
Init ==
    /\ maxRetries \in {CtorMaxRetries(o) : o \in 0..MaxRetriesOpt}
    /\ timer = Null
    /\ retryCount = 0
    /\ activeTimers = {}
    /\ nextTimer = 1
    /\ inTick = 0
    /\ inStop = 0
    /\ inOnError = 0
    /\ tickCalls = 0
    /\ errCalls = 0
    /\ escaped = 0
    /\ starts = 0
    /\ allFailed = TRUE
    /\ userStopped = FALSE
    /\ hadSuccess = FALSE
    /\ failsSinceSuccess = 0
    /\ stopSinceSuccess = FALSE
    /\ failsBeforeSuccess = 0
    /\ rejected = FALSE
    /\ lastOp = "init"
    /\ process = Null
    /\ processName = NoName
    /\ processState = NoState
    /\ children = <<>>
    /\ file = NoRecord
    /\ pending = NoPending
    /\ hostUp = TRUE
    /\ invocation = 1
    /\ startedIn = 0
    /\ lastOpt = NoName
    /\ lastCfg = NoName
    /\ lastArgs = <<>>
    /\ pmOp = "init"
    /\ pmResult = "none"
    /\ fs = {}
    /\ scanBad = {}
    /\ scanResult = NoScan
    /\ scanOp = "init"
    /\ argOptions = NoOptions
    /\ argConfig = NoArgConfig
    /\ argList = <<>>
    /\ argOp = "init"
    /\ DEFAULT_CONFIG = DefaultConfig
    /\ cfgFile = NoFile
    /\ cfgOp = "init"
    /\ cfgResult = NoLoad

\* A caller's code and a timer are macrotasks: they run only when no
\* continuation of an already resolved promise (`await this.stop()`) is queued.
NoMicrotask == inStop = 0

\* Schedule.start() while Idle: installs the interval and stores its id
StartIdle ==
    /\ NoMicrotask
    /\ ~AlreadyRunning(timer)
    /\ starts < MaxStarts
    /\ timer' = nextTimer
    /\ activeTimers' = activeTimers \cup {nextTimer}
    /\ nextTimer' = nextTimer + 1
    /\ starts' = starts + 1
    /\ rejected' = FALSE
    /\ lastOp' = "start"
    /\ UNCHANGED <<maxRetries, retryCount, inTick, inStop, inOnError,
                   tickCalls, errCalls, escaped, allFailed, userStopped,
                   hadSuccess, failsSinceSuccess, stopSinceSuccess,
                   failsBeforeSuccess>>
    /\ UNCHANGED <<pmVars, scanVars, argVars, cfgVars>>

\* Schedule.start() while Running: throws 'Scheduler already running'
StartRunning ==
    /\ NoMicrotask
    /\ AlreadyRunning(timer)
    /\ rejected' = TRUE
    /\ lastOp' = "startRejected"
    /\ UNCHANGED <<maxRetries, timer, retryCount, activeTimers, nextTimer,
                   inTick, inStop, inOnError, tickCalls, errCalls, escaped,
                   starts, allFailed, userStopped, hadSuccess,
                   failsSinceSuccess, stopSinceSuccess, failsBeforeSuccess>>
    /\ UNCHANGED <<pmVars, scanVars, argVars, cfgVars>>

\* Schedule.stop() called from outside the timer callback
Stop ==
    /\ NoMicrotask
    /\ LET r == StopResult(timer, activeTimers, retryCount) IN
        /\ timer' = r.timer
        /\ activeTimers' = r.activeTimers
        /\ retryCount' = r.retryCount
    /\ userStopped' = TRUE
    /\ stopSinceSuccess' = TRUE
    /\ lastOp' = IF timer # Null THEN "stop" ELSE "stopIdle"
    /\ UNCHANGED <<maxRetries, nextTimer, inTick, inStop, inOnError,
                   tickCalls, errCalls, escaped, starts, allFailed,
                   hadSuccess, failsSinceSuccess, failsBeforeSuccess,
                   rejected>>
    /\ UNCHANGED <<pmVars, scanVars, argVars, cfgVars>>

\* the tick evaluations in flight after the callback of a firing ran up to
\* its await: the callback calls evaluateProcess whatever is in flight
InFlightAfterFire_guarded(n) == IF n > 0 THEN n ELSE n + 1
InFlightAfterFire(n) == n + 1

\* an installed interval fires: the callback runs up to
\* `await this.processManager.evaluateProcess(this.options.tick, ...)`
TimerFire ==
    /\ NoMicrotask
    /\ activeTimers # {}
    /\ tickCalls < MaxTicks
    /\ inTick' = InFlightAfterFire(inTick)
    /\ tickCalls' = tickCalls + 1
    /\ lastOp' = "fire"
    /\ UNCHANGED <<maxRetries, timer, retryCount, activeTimers, nextTimer,
                   inStop, inOnError, errCalls, escaped, starts, allFailed,
                   userStopped, hadSuccess, failsSinceSuccess,
                   stopSinceSuccess, failsBeforeSuccess,
                   rejected>>
    /\ UNCHANGED <<pmVars, scanVars, argVars, cfgVars>>

\* a tick evaluation resolves: this.retryCount = 0, the callback returns
TickSucceeds ==
    /\ inTick > 0
    /\ inTick' = inTick - 1
    /\ retryCount' = CountAfterSuccess(retryCount)
    /\ allFailed' = FALSE
    /\ hadSuccess' = TRUE
    /\ failsSinceSuccess' = 0
    /\ failsBeforeSuccess' = failsSinceSuccess
    /\ stopSinceSuccess' = FALSE
    /\ lastOp' = "tickOk"
    /\ UNCHANGED <<maxRetries, timer, activeTimers, nextTimer, inStop,
                   inOnError, tickCalls, errCalls, escaped, starts,
                   userStopped, rejected>>
    /\ UNCHANGED <<pmVars, scanVars, argVars, cfgVars>>

\* a tick evaluation rejects: the catch branch up to its first await, which is
\* `await this.stop()` when the counter reached maxRetries and the end of the
\* callback otherwise
TickFails ==
    /\ inTick > 0
    /\ inTick' = inTick - 1
    /\ failsSinceSuccess' = failsSinceSuccess + 1
    /\ IF MustEscalate(retryCount + 1, maxRetries)
       THEN LET r == StopResult(timer, activeTimers, retryCount + 1) IN
              /\ timer' = r.timer
              /\ activeTimers' = r.activeTimers
              /\ retryCount' = r.retryCount
              /\ inStop' = inStop + 1
              /\ stopSinceSuccess' = TRUE
              /\ lastOp' = "escalate"
       ELSE /\ retryCount' = retryCount + 1
            /\ lastOp' = "tickFail"
            /\ UNCHANGED <<timer, activeTimers, inStop, stopSinceSuccess>>
    /\ UNCHANGED <<maxRetries, nextTimer, inOnError, tickCalls, errCalls,
                   escaped, starts, allFailed, userStopped, hadSuccess,
                   failsBeforeSuccess, rejected>>
    /\ UNCHANGED <<pmVars, scanVars, argVars, cfgVars>>

\* the callback resumes after `await this.stop()` and calls
\* evaluateProcess(this.options.onError)
InvokeErrorHandler ==
    /\ inStop > 0
    /\ inStop' = inStop - 1
    /\ inOnError' = inOnError + 1
    /\ errCalls' = errCalls + 1
    /\ lastOp' = "invokeOnError"
    /\ UNCHANGED <<maxRetries, timer, retryCount, activeTimers, nextTimer,
                   inTick, tickCalls, escaped, starts, allFailed,
                   userStopped, hadSuccess, failsSinceSuccess,
                   stopSinceSuccess, failsBeforeSuccess,
                   rejected>>
    /\ UNCHANGED <<pmVars, scanVars, argVars, cfgVars>>

\* the error-handler evaluation resolves: the callback returns
ErrorHandlerSucceeds ==
    /\ inOnError > 0
    /\ inOnError' = inOnError - 1
    /\ allFailed' = FALSE
    /\ lastOp' = "onErrorOk"
    /\ UNCHANGED <<maxRetries, timer, retryCount, activeTimers, nextTimer,
                   inTick, inStop, tickCalls, errCalls, escaped, starts,
                   userStopped, hadSuccess, failsSinceSuccess,
                   stopSinceSuccess, failsBeforeSuccess,
                   rejected>>
    /\ UNCHANGED <<pmVars, scanVars, argVars, cfgVars>>

\* the number of rejected callbacks after an error-handler evaluation
\* rejected: as before, `catch (errorHandlerError)` only logs the error
AfterOnErrorRejection_rethrown(esc) == esc + 1
AfterOnErrorRejection(esc) == esc

\* the error-handler evaluation rejects: caught and logged, the callback returns
ErrorHandlerFails ==
    /\ inOnError > 0
    /\ inOnError' = inOnError - 1
    /\ escaped' = AfterOnErrorRejection(escaped)
    /\ lastOp' = "onErrorFail"
    /\ UNCHANGED <<maxRetries, timer, retryCount, activeTimers, nextTimer,
                   inTick, inStop, tickCalls, errCalls, starts, allFailed,
                   userStopped, hadSuccess, failsSinceSuccess,
                   stopSinceSuccess, failsBeforeSuccess,
                   rejected>>
    /\ UNCHANGED <<pmVars, scanVars, argVars, cfgVars>>

SchedNext ==
    \/ StartIdle
    \/ StartRunning
    \/ Stop
    \/ TimerFire
    \/ TickSucceeds
    \/ TickFails
    \/ InvokeErrorHandler
    \/ ErrorHandlerSucceeds
    \/ ErrorHandlerFails


(***************************************************************************)
(* ProcessManager                                                          *)
(*                                                                         *)
(* The caller awaits each asynchronous ProcessManager call before it makes *)
(* the next one (as commands/process.ts does); events of the child         *)
(* processes arrive at any time.                                           *)
(***************************************************************************)

\* this.processName after the name resolution of startAOProcessForeground:
\* assigned only when options.name or config.processName is given
ResolveName(optName, cfgName, cur) ==
    IF optName # NoName \/ cfgName # NoName
    THEN (IF optName # NoName THEN optName ELSE cfgName)
    ELSE cur

\* the positional part of the argument list: `args.push(processName)` runs
\* inside the same `if (options.name || config.processName)`
NameArgs(optName, cfgName) ==
    IF optName # NoName \/ cfgName # NoName
    THEN <<(IF optName # NoName THEN optName ELSE cfgName)>>
    ELSE <<>>

\* this.processName || 'default'
NameOrDefault(n) == IF n = NoName THEN DefaultName ELSE n

\* this.process.pid || 0
PidOrZero_zero(pid) == 0
PidOrZero(pid) == IF pid = NoPid THEN 0 ELSE pid

\* spawn('aos', args, ...): the handle with id h; when the binary cannot be
\* started the handle has no pid and an 'error' event is queued for it
Spawn(h, ok) ==
    [pid |-> IF ok THEN h ELSE NoPid, alive |-> ok, killed |-> FALSE,
     kills |-> 0, handlers |-> FALSE, errorPending |-> ~ok]

\* ChildProcess.kill(): sends SIGTERM and sets `killed` when the child still
\* runs; returns false and changes nothing when it is gone
Kill(c) ==
    IF c.alive
    THEN [c EXCEPT !.killed = TRUE, !.kills = @ + 1]
    ELSE [c EXCEPT !.kills = @ + 1]

\* fs.writeJSON(this.processFilePath, info): the file holds info alone
WriteRecord_keepFirst(old, info) == IF old = NoRecord THEN info ELSE old
WriteRecord(old, info) == info

\* getProcessInfo(): the record read back, NoRecord (null) without a file
GetProcessInfo(f) == f

\* stopProcess(): `this.process = null` after the kill
HandleAfterStop_kept(p) == p
HandleAfterStop(p) == Null

\* stopProcess(): `this.processState.status = 'stopped'` if a state exists
StateAfterStop_untouched(st) == st
StateAfterStop(st) ==
    IF st # NoState THEN [st EXCEPT !.status = "stopped"] ELSE st

\* isProcessRunning(): this.process !== null && !this.process.killed
isProcessRunning_anyHandle(p, ch) == p # Null
isProcessRunning(p, ch) == p # Null /\ ~ch[p].killed

\* setupProcessHandlers(): `if (!this.process) return`, else the 'close' and
\* 'error' listeners are attached to this.process (stdout and stderr are
\* null under stdio: 'inherit')
RegisterHandlers(ch, p) ==
    IF p = Null THEN ch ELSE [ch EXCEPT ![p].handlers = TRUE]

\* the queued 'error' event of a failed spawn is emitted on the next tick,
\* before any file-system completion
NoErrorQueued == \A h \in DOMAIN children : ~children[h].errorPending

\* startAOProcess -> startAOProcessForeground up to `await saveProcessInfo`
StartBegin(optName, cfgName, ok) ==
    /\ hostUp
    /\ pending = NoPending
    /\ NoErrorQueued
    /\ Len(children) < MaxSpawns
    /\ LET h == Len(children) + 1
           name == ResolveName(optName, cfgName, processName)
           child == Spawn(h, ok)
       IN  /\ children' = Append(children, child)
           /\ process' = h
           /\ processName' = name
           /\ processState' = [id |-> NameOrDefault(name),
                               status |-> "running", errors |-> 0]
           /\ pending' = [handle |-> h,
                          record |-> [name |-> NameOrDefault(name),
                                      pid |-> PidOrZero(child.pid)]]
    /\ pmOp' = "startBegin"
    /\ UNCHANGED <<file, hostUp, pmResult>>
    /\ lastOpt' = optName
    /\ lastCfg' = cfgName
    /\ lastArgs' = NameArgs(optName, cfgName)
    /\ startedIn' = invocation
    /\ UNCHANGED invocation
    /\ UNCHANGED <<schedVars, scanVars, argVars, cfgVars>>

\* the write of the record completed: setupProcessHandlers, return this.process
StartFinish ==
    /\ hostUp
    /\ pending # NoPending
    /\ NoErrorQueued
    /\ file' = WriteRecord(file, pending.record)
    /\ children' = RegisterHandlers(children, process)
    /\ pending' = NoPending
    /\ pmOp' = "startDone"
    /\ pmResult' = process
    /\ UNCHANGED <<process, processName, processState, hostUp>>
    /\ UNCHANGED <<invocation, startedIn, lastOpt, lastCfg, lastArgs>>
    /\ UNCHANGED <<schedVars, scanVars, argVars, cfgVars>>

\* the write of the record failed: logged and rethrown, the call rejects
StartFails ==
    /\ hostUp
    /\ pending # NoPending
    /\ NoErrorQueued
    /\ pending' = NoPending
    /\ pmOp' = "startFailed"
    /\ pmResult' = "rejected"
    /\ UNCHANGED <<process, processName, processState, children, file,
                   hostUp>>
    /\ UNCHANGED <<invocation, startedIn, lastOpt, lastCfg, lastArgs>>
    /\ UNCHANGED <<schedVars, scanVars, argVars, cfgVars>>

\* stopProcess()
StopProcess ==
    /\ hostUp
    /\ pending = NoPending
    /\ NoErrorQueued
    /\ IF process # Null
       THEN /\ children[process].kills <= MaxKills
            /\ children' = [children EXCEPT ![process] = Kill(@)]
            /\ process' = HandleAfterStop(process)
            /\ processState' = StateAfterStop(processState)
       ELSE UNCHANGED <<children, process, processState>>
    /\ pmOp' = IF pmOp \in {"stop", "stopAgain"} THEN "stopAgain"
               ELSE IF process # Null THEN "stop" ELSE "stopNoop"
    /\ pmResult' = "resolved"
    /\ UNCHANGED <<processName, file, pending, hostUp>>
    /\ UNCHANGED <<invocation, startedIn, lastOpt, lastCfg, lastArgs>>
    /\ UNCHANGED <<schedVars, scanVars, argVars, cfgVars>>

\* isProcessRunning()
IsProcessRunning ==
    /\ hostUp
    /\ NoErrorQueued
    /\ pmOp' = "isRunning"
    /\ pmResult' = isProcessRunning(process, children)
    /\ UNCHANGED <<process, processName, processState, children, file,
                   pending, hostUp>>
    /\ UNCHANGED <<invocation, startedIn, lastOpt, lastCfg, lastArgs>>
    /\ UNCHANGED <<schedVars, scanVars, argVars, cfgVars>>

\* listProcesses(): reports the record getProcessInfo() reads
ListProcesses ==
    /\ hostUp
    /\ pending = NoPending
    /\ NoErrorQueued
    /\ pmOp' = "list"
    /\ pmResult' = GetProcessInfo(file)
    /\ UNCHANGED <<process, processName, processState, children, file,
                   pending, hostUp>>
    /\ UNCHANGED <<invocation, startedIn, lastOpt, lastCfg, lastArgs>>
    /\ UNCHANGED <<schedVars, scanVars, argVars, cfgVars>>

\* the holder of the handle that startAOProcess returned calls kill() on it
HandleKill(h) ==
    /\ hostUp
    /\ NoErrorQueued
    /\ h \in DOMAIN children
    /\ children[h].handlers
    /\ children[h].kills < MaxKills
    /\ children' = [children EXCEPT ![h] = Kill(@)]
    /\ pmOp' = "handleKill"
    /\ UNCHANGED <<process, processName, processState, file, pending,
                   hostUp, pmResult>>
    /\ UNCHANGED <<invocation, startedIn, lastOpt, lastCfg, lastArgs>>
    /\ UNCHANGED <<schedVars, scanVars, argVars, cfgVars>>

\* a child process ends (by itself or after a signal): its 'close' listener,
\* if setupProcessHandlers attached one, sets this.processState.status
ChildClose(h) ==
    /\ hostUp
    /\ NoErrorQueued
    /\ h \in DOMAIN children
    /\ children[h].alive
    /\ children' = [children EXCEPT ![h].alive = FALSE]
    /\ processState' = IF children[h].handlers
                       THEN [processState EXCEPT !.status = "stopped"]
                       ELSE processState
    /\ pmOp' = "close"
    /\ UNCHANGED <<process, processName, file, pending, hostUp, pmResult>>
    /\ UNCHANGED <<invocation, startedIn, lastOpt, lastCfg, lastArgs>>
    /\ UNCHANGED <<schedVars, scanVars, argVars, cfgVars>>

\* the 'error' event of a failed spawn: the listener attached right after
\* spawn logs and throws, which is an uncaught exception of the CLI process
ChildError(h) ==
    /\ hostUp
    /\ h \in DOMAIN children
    /\ children[h].errorPending
    /\ children' = [children EXCEPT ![h].errorPending = FALSE]
    /\ hostUp' = FALSE
    /\ pmOp' = "spawnError"
    /\ UNCHANGED <<process, processName, processState, file, pending,
                   pmResult>>
    /\ UNCHANGED <<invocation, startedIn, lastOpt, lastCfg, lastArgs>>
    /\ UNCHANGED <<schedVars, scanVars, argVars, cfgVars>>

PMNext ==
    \/ \E o \in OptionNames, c \in ConfigNames, ok \in BOOLEAN :
          StartBegin(o, c, ok)
    \/ StartFinish
    \/ StartFails
    \/ StopProcess
    \/ IsProcessRunning
    \/ ListProcesses
    \/ \E h \in 1..MaxSpawns : HandleKill(h)
    \/ \E h \in 1..MaxSpawns : ChildClose(h)
    \/ \E h \in 1..MaxSpawns : ChildError(h)

\* a Schedule next to an untouched ProcessManager
Spec == Init /\ [][SchedNext]_vars

\* the same fields with a Schedule built from default options
PMInit ==
    /\ maxRetries = CtorMaxRetries(0)
    /\ timer = Null
    /\ retryCount = 0
    /\ activeTimers = {}
    /\ nextTimer = 1
    /\ inTick = 0
    /\ inStop = 0
    /\ inOnError = 0
    /\ tickCalls = 0
    /\ errCalls = 0
    /\ escaped = 0
    /\ starts = 0
    /\ allFailed = TRUE
    /\ userStopped = FALSE
    /\ hadSuccess = FALSE
    /\ failsSinceSuccess = 0
    /\ stopSinceSuccess = FALSE
    /\ failsBeforeSuccess = 0
    /\ rejected = FALSE
    /\ lastOp = "init"
    /\ process = Null
    /\ processName = NoName
    /\ processState = NoState
    /\ children = <<>>
    /\ file = NoRecord
    /\ pending = NoPending
    /\ hostUp = TRUE
    /\ invocation = 1
    /\ startedIn = 0
    /\ lastOpt = NoName
    /\ lastCfg = NoName
    /\ lastArgs = <<>>
    /\ pmOp = "init"
    /\ pmResult = "none"
    /\ fs = {}
    /\ scanBad = {}
    /\ scanResult = NoScan
    /\ scanOp = "init"
    /\ argOptions = NoOptions
    /\ argConfig = NoArgConfig
    /\ argList = <<>>
    /\ argOp = "init"
    /\ DEFAULT_CONFIG = DefaultConfig
    /\ cfgFile = NoFile
    /\ cfgOp = "init"
    /\ cfgResult = NoLoad

\* a ProcessManager next to a Schedule that is never started
PMSpec == PMInit /\ [][PMNext]_vars

\* ProcessCommand.execute in a later `ao-forge process ...` invocation: a new
\* node process with `new ProcessManager()`, whose fields are null; the
\* listeners of the earlier invocation's manager are no part of it. The
\* record file and the children spawned so far stay as they are.
NewInvocation ==
    /\ pending = NoPending
    /\ NoErrorQueued
    /\ invocation < MaxInvocations
    /\ invocation' = invocation + 1
    /\ process' = Null
    /\ processName' = NoName
    /\ processState' = NoState
    /\ children' = [h \in DOMAIN children |->
                       [children[h] EXCEPT !.handlers = FALSE]]
    /\ hostUp' = TRUE
    /\ pmOp' = "invoke"
    /\ UNCHANGED <<file, pending, pmResult>>
    /\ UNCHANGED <<startedIn, lastOpt, lastCfg, lastArgs>>
    /\ UNCHANGED <<schedVars, scanVars, argVars, cfgVars>>

CliNext ==
    \/ PMNext
    \/ NewInvocation

\* the ProcessManager calls of successive CLI invocations
CliSpec == PMInit /\ [][CliNext]_vars

(***************************************************************************)
(* ProcessManager.findLuaFiles                                             *)
(*                                                                         *)
(* A file name is the sequence of its characters, a path the sequence of   *)
(* its names.  The tree below the root is built entry by entry; a scan     *)
(* runs on the tree as it is, and readdir fails on the directories the     *)
(* environment picks.                                                      *)
(***************************************************************************)

Dot == <<".">>
DotLua == <<".", "l", "u", "a">>

\* the names of files and directories tried
EntryNames ==
    { <<"a", ".", "l", "u", "a">>,      \* a.lua
      <<"b", ".", "t", "x", "t">>,      \* b.txt
      <<".", "g", "i", "t">>,           \* .git
      <<"s", "u", "b">> }               \* sub
\* Dirent kinds: a regular file, a directory, anything else (a symlink)
EntryKinds == {"file", "dir", "link"}

\* targetPath
Root == << <<"p">> >>

\* String.prototype.startsWith / endsWith
StartsWith(n, pre) ==
    Len(n) >= Len(pre) /\ SubSeq(n, 1, Len(pre)) = pre
EndsWith(n, suf) ==
    Len(n) >= Len(suf) /\ SubSeq(n, Len(n) - Len(suf) + 1, Len(n)) = suf

\* path.join(dir, name) and path.relative(from, to) for `to` below `from`
Join(dir, name) == Append(dir, name)
Relative(from, to) == SubSeq(to, Len(from) + 1, Len(to))

\* the directories of the tree, the root included, as paths below the root
Dirs == {<<>>} \cup {e.path : e \in {x \in fs : x.kind = "dir"}}

\* fs.readdir(dir, {withFileTypes: true}): the entries directly in dir, in
\* the order the file system lists them
DirEntries(rel) ==
    {e \in fs : Len(e.path) = Len(rel) + 1
                /\ SubSeq(e.path, 1, Len(rel)) = rel}

RECURSIVE Listing(_)
Listing(S) ==
    IF S = {} THEN <<>>
    ELSE LET e == CHOOSE x \in S : TRUE IN <<e>> \o Listing(S \ {e})

\* `entry.isDirectory() && !entry.name.startsWith('.')`
Descend_hidden(kind, name) == kind = "dir"
Descend(kind, name) == kind = "dir" /\ ~StartsWith(name, Dot)

\* `entry.isFile() && entry.name.endsWith('.lua')`
Collect(kind, name) == kind = "file" /\ EndsWith(name, DotLua)

\* walk(dir) with the list `files` as it is when the call starts: the list
\* afterwards, or raised when a readdir on the way failed
RECURSIVE WalkDir(_, _, _), WalkEntries(_, _, _, _)
WalkEntries(dir, es, files, bad) ==
    IF es = <<>> THEN [raised |-> FALSE, files |-> files]
    ELSE LET entry == Head(es)
             name == entry.path[Len(entry.path)]
             fullPath == Join(dir, name)
         IN  IF Descend(entry.kind, name)
             THEN LET r == WalkDir(fullPath, files, bad) IN
                    IF r.raised THEN r
                    ELSE WalkEntries(dir, Tail(es), r.files, bad)
             ELSE IF Collect(entry.kind, name)
             THEN WalkEntries(dir, Tail(es),
                              Append(files, Relative(Root, fullPath)), bad)
             ELSE WalkEntries(dir, Tail(es), files, bad)
WalkDir(dir, files, bad) ==
    IF Relative(Root, dir) \in bad
    THEN [raised |-> TRUE, files |-> <<>>]
    ELSE WalkEntries(dir, Listing(DirEntries(Relative(Root, dir))), files, bad)

\* findLuaFiles(targetPath): `return files`, or the catch branch, which logs
\* and rethrows
FindLuaFiles(bad) == WalkDir(Root, <<>>, bad)

\* a file, directory or link appears in a directory of the tree
AddEntry(dir, name, kind) ==
    /\ dir \in Dirs
    /\ Len(dir) < MaxDepth
    /\ Cardinality(fs) < MaxEntries
    /\ \A e \in fs : e.path # Append(dir, name)
    /\ fs' = fs \cup {[path |-> Append(dir, name), kind |-> kind]}
    /\ scanOp' = "add"
    /\ scanBad' = {}
    /\ scanResult' = NoScan
    /\ UNCHANGED <<schedVars, pmVars, argVars, cfgVars>>

\* findLuaFiles(targetPath) while readdir fails on the directories in bad
Scan(bad) ==
    /\ bad \subseteq Dirs
    /\ Cardinality(bad) <= 1
    /\ scanBad' = bad
    /\ scanResult' = FindLuaFiles(bad)
    /\ scanOp' = "scan"
    /\ UNCHANGED fs
    /\ UNCHANGED <<schedVars, pmVars, argVars, cfgVars>>

ScanNext ==
    \/ \E dir \in Dirs, name \in EntryNames, kind \in EntryKinds :
          AddEntry(dir, name, kind)
    \/ \E bad \in SUBSET Dirs : Scan(bad)

\* the fields as constructed, the scanned root empty
ScanInit ==
    /\ maxRetries = CtorMaxRetries(0)
    /\ timer = Null
    /\ retryCount = 0
    /\ activeTimers = {}
    /\ nextTimer = 1
    /\ inTick = 0
    /\ inStop = 0
    /\ inOnError = 0
    /\ tickCalls = 0
    /\ errCalls = 0
    /\ escaped = 0
    /\ starts = 0
    /\ allFailed = TRUE
    /\ userStopped = FALSE
    /\ hadSuccess = FALSE
    /\ failsSinceSuccess = 0
    /\ stopSinceSuccess = FALSE
    /\ failsBeforeSuccess = 0
    /\ rejected = FALSE
    /\ lastOp = "init"
    /\ process = Null
    /\ processName = NoName
    /\ processState = NoState
    /\ children = <<>>
    /\ file = NoRecord
    /\ pending = NoPending
    /\ hostUp = TRUE
    /\ invocation = 1
    /\ startedIn = 0
    /\ lastOpt = NoName
    /\ lastCfg = NoName
    /\ lastArgs = <<>>
    /\ pmOp = "init"
    /\ pmResult = "none"
    /\ fs = {}
    /\ scanBad = {}
    /\ scanResult = NoScan
    /\ scanOp = "init"
    /\ argOptions = NoOptions
    /\ argConfig = NoArgConfig
    /\ argList = <<>>
    /\ argOp = "init"
    /\ DEFAULT_CONFIG = DefaultConfig
    /\ cfgFile = NoFile
    /\ cfgOp = "init"
    /\ cfgResult = NoLoad

\* a ProcessManager whose findLuaFiles is called on a growing tree
ScanSpec == ScanInit /\ [][ScanNext]_vars

(***************************************************************************)
(* The argument list of startAOProcessForeground / startAOProcessBackground *)
(***************************************************************************)

\* the source files a config may name
LuaNames == {"a.lua", "b.lua"}

\* the lists of length n over S
SeqsOfLen(S, n) == [1..n -> S]

\* the options objects tried: every option undefined (or '') or set
AllOptions ==
    [name : OptionNames, wallet : {NoName, "w.json"}, data : {NoName, "d"},
     tagName : {NoName, "tn"}, tagValue : {NoName, "tv"},
     module : {NoName, "m"}, cron : {NoName, "1-minute"},
     monitor : BOOLEAN, sqlite : BOOLEAN, gatewayUrl : {NoName, "g"},
     cuUrl : {NoName, "cu"}, muUrl : {NoName, "mu"}]

\* the config objects tried, as far as the argument list reads them
AllArgConfigs ==
    [processName : ConfigNames,
     luaFiles : UNION {SeqsOfLen(LuaNames, n) : n \in 0..MaxLuaFiles}]

\* `if (x) args.push(...)`: the pushed items when the condition is truthy
PushIf(cond, items) == IF cond THEN items ELSE <<>>

\* `for (const file of config.luaFiles) args.push('--load', file)`
RECURSIVE LoadArgs(_)
LoadArgs(files) ==
    IF files = <<>> THEN <<>>
    ELSE <<"--load", Head(files)>> \o LoadArgs(Tail(files))

\* `if (options.tagName && options.tagValue)`
TagGiven_either(o) == o.tagName # NoName \/ o.tagValue # NoName
TagGiven(o) == o.tagName # NoName /\ o.tagValue # NoName

\* `const args = []` followed by the pushes, in the order of the code
BuildArgs(o, c) ==
    NameArgs(o.name, c.processName)
    \o PushIf(o.wallet # NoName, <<"--wallet", o.wallet>>)
    \o LoadArgs(c.luaFiles)
    \o PushIf(o.data # NoName, <<"--data", o.data>>)
    \o PushIf(TagGiven(o),
              <<"--tag-name", o.tagName, "--tag-value", o.tagValue>>)
    \o PushIf(o.module # NoName, <<"--module", o.module>>)
    \o PushIf(o.cron # NoName, <<"--cron", o.cron>>)
    \o PushIf(o.monitor, <<"--monitor">>)
    \o PushIf(o.sqlite, <<"--sqlite">>)
    \o PushIf(o.gatewayUrl # NoName, <<"--gateway-url", o.gatewayUrl>>)
    \o PushIf(o.cuUrl # NoName, <<"--cu-url", o.cuUrl>>)
    \o PushIf(o.muUrl # NoName, <<"--mu-url", o.muUrl>>)

\* startAOProcessForeground builds the list for spawn(..., stdio: 'inherit')
BuildForeground ==
    /\ argOp = "init"
    /\ argList' = BuildArgs(argOptions, argConfig)
    /\ argOp' = "foreground"
    /\ UNCHANGED <<argOptions, argConfig>>
    /\ UNCHANGED <<schedVars, pmVars, scanVars, cfgVars>>

\* startAOProcessBackground builds the list for spawn(..., detached: true)
BuildBackground ==
    /\ argOp = "init"
    /\ argList' = BuildArgs(argOptions, argConfig)
    /\ argOp' = "background"
    /\ UNCHANGED <<argOptions, argConfig>>
    /\ UNCHANGED <<schedVars, pmVars, scanVars, cfgVars>>

ArgsNext ==
    \/ BuildForeground
    \/ BuildBackground

\* the fields as constructed, with the inputs of one start call
ArgsInit ==
    /\ maxRetries = CtorMaxRetries(0)
    /\ timer = Null
    /\ retryCount = 0
    /\ activeTimers = {}
    /\ nextTimer = 1
    /\ inTick = 0
    /\ inStop = 0
    /\ inOnError = 0
    /\ tickCalls = 0
    /\ errCalls = 0
    /\ escaped = 0
    /\ starts = 0
    /\ allFailed = TRUE
    /\ userStopped = FALSE
    /\ hadSuccess = FALSE
    /\ failsSinceSuccess = 0
    /\ stopSinceSuccess = FALSE
    /\ failsBeforeSuccess = 0
    /\ rejected = FALSE
    /\ lastOp = "init"
    /\ process = Null
    /\ processName = NoName
    /\ processState = NoState
    /\ children = <<>>
    /\ file = NoRecord
    /\ pending = NoPending
    /\ hostUp = TRUE
    /\ invocation = 1
    /\ startedIn = 0
    /\ lastOpt = NoName
    /\ lastCfg = NoName
    /\ lastArgs = <<>>
    /\ pmOp = "init"
    /\ pmResult = "none"
    /\ fs = {}
    /\ scanBad = {}
    /\ scanResult = NoScan
    /\ scanOp = "init"
    /\ argOptions \in AllOptions
    /\ argConfig \in AllArgConfigs
    /\ argList = <<>>
    /\ argOp = "init"
    /\ DEFAULT_CONFIG = DefaultConfig
    /\ cfgFile = NoFile
    /\ cfgOp = "init"
    /\ cfgResult = NoLoad

\* one construction of the argument list for each input
ArgsSpec == ArgsInit /\ [][ArgsNext]_vars

(***************************************************************************)
(* ConfigManager                                                           *)
(*                                                                         *)
(* Config objects are modelled by their top-level keys; the caller awaits  *)
(* each ConfigManager call before it makes the next one.                   *)
(***************************************************************************)

\* the top-level keys tried: three keys of the schema and one it does not know
ConfigKeys == {"processName", "packageManager", "luaFiles", "extra"}

\* the values tried under a key; "bun" is no member of the enum
ConfigValues(k) ==
    IF k = "processName" THEN {"p"}
    ELSE IF k = "packageManager" THEN {"npm", "pnpm", "bun"}
    ELSE IF k = "luaFiles" THEN {"[a.lua]"}
    ELSE {"x"}

\* the objects with some of the keys
ConfigObjects ==
    UNION {{f \in [S -> UNION {ConfigValues(k) : k \in ConfigKeys}] :
               \A k \in S : f[k] \in ConfigValues(k)} : S \in SUBSET ConfigKeys}

\* { ...a, ...b }
Spread(a, b) ==
    [k \in DOMAIN a \cup DOMAIN b |-> IF k \in DOMAIN b THEN b[k] ELSE a[k]]

\* AOConfigSchema.parse(config) succeeds
SchemaAccepts(config) ==
    "packageManager" \in DOMAIN config
        => config["packageManager"] \in PackageManagers

\* AOConfigSchema.parse(config) when it succeeds: unknown keys are stripped
\* and absent keys take the schema's defaults
SchemaParse(config) ==
    [k \in DOMAIN SchemaDefault |->
        IF k \in DOMAIN config THEN config[k] ELSE SchemaDefault[k]]

\* loadConfig(): the object returned and whether it is DEFAULT_CONFIG itself
\* (no file, or the catch branch) or a new merged object
LoadConfigResult(def, f) ==
    IF f.exists /\ SchemaAccepts(f.raw)
    THEN [value |-> Spread(def, SchemaParse(f.raw)), shared |-> FALSE]
    ELSE [value |-> def, shared |-> TRUE]

\* setNestedValue(obj, key, value) for a key without dots: obj[key] = value
SetNestedValue(obj, key, value) ==
    [k \in DOMAIN obj \cup {key} |-> IF k = key THEN value ELSE obj[k]]

\* saveConfig(config): the file afterwards; it is left alone when
\* validateConfig throws
SaveConfigFile(f, config) ==
    IF SchemaAccepts(config)
    THEN [exists |-> TRUE, raw |-> SchemaParse(config)]
    ELSE f

\* the user writes ao.config.yml
EditFile(raw) ==
    /\ cfgFile' = [exists |-> TRUE, raw |-> raw]
    /\ cfgOp' = "edit"
    /\ UNCHANGED <<DEFAULT_CONFIG, cfgResult>>
    /\ UNCHANGED <<schedVars, pmVars, scanVars, argVars>>

\* the user removes ao.config.yml
DeleteFile ==
    /\ cfgFile.exists
    /\ cfgFile' = NoFile
    /\ cfgOp' = "delete"
    /\ UNCHANGED <<DEFAULT_CONFIG, cfgResult>>
    /\ UNCHANGED <<schedVars, pmVars, scanVars, argVars>>

\* loadConfig()
LoadConfig ==
    /\ cfgResult' = [ok |-> TRUE,
                     value |-> LoadConfigResult(DEFAULT_CONFIG, cfgFile).value]
    /\ cfgOp' = "load"
    /\ UNCHANGED <<DEFAULT_CONFIG, cfgFile>>
    /\ UNCHANGED <<schedVars, pmVars, scanVars, argVars>>

\* setConfigValue(key, value): loadConfig, setNestedValue on the object it
\* returned, saveConfig; rejects when saveConfig throws
SetConfigValue(key, value) ==
    LET l == LoadConfigResult(DEFAULT_CONFIG, cfgFile)
        config == SetNestedValue(l.value, key, value)
    IN  /\ DEFAULT_CONFIG' = IF l.shared THEN config ELSE DEFAULT_CONFIG
        /\ cfgFile' = SaveConfigFile(cfgFile, config)
        /\ cfgResult' = [ok |-> SchemaAccepts(config), value |-> EmptyObject]
        /\ cfgOp' = "set"
        /\ UNCHANGED <<schedVars, pmVars, scanVars, argVars>>

\* updateConfig(updates): loadConfig, a new merged object, saveConfig;
\* returns the merged object or rejects when saveConfig throws
UpdateConfig(updates) ==
    LET l == LoadConfigResult(DEFAULT_CONFIG, cfgFile)
        updatedConfig == Spread(l.value, updates)
    IN  /\ cfgFile' = SaveConfigFile(cfgFile, updatedConfig)
        /\ cfgResult' = IF SchemaAccepts(updatedConfig)
                        THEN [ok |-> TRUE, value |-> updatedConfig]
                        ELSE [ok |-> FALSE, value |-> EmptyObject]
        /\ cfgOp' = "update"
        /\ UNCHANGED DEFAULT_CONFIG
        /\ UNCHANGED <<schedVars, pmVars, scanVars, argVars>>

\* validateConfigFile(): loadConfig, then validateConfig on what it returned
ValidateConfigFile ==
    /\ cfgResult' =
          [ok |-> SchemaAccepts(LoadConfigResult(DEFAULT_CONFIG, cfgFile).value),
           value |-> EmptyObject]
    /\ cfgOp' = "validate"
    /\ UNCHANGED <<DEFAULT_CONFIG, cfgFile>>
    /\ UNCHANGED <<schedVars, pmVars, scanVars, argVars>>

\* `ao-forge process start` in a project whose scan found source files:
\* ProcessCommand.execute loads the config and startProcess assigns
\* `config.luaFiles = luaFiles` on the object loadConfig returned
ProcessStartAssign(luaFiles) ==
    LET l == LoadConfigResult(DEFAULT_CONFIG, cfgFile)
        config == SetNestedValue(l.value, "luaFiles", luaFiles)
    IN  /\ luaFiles # "[]"
        /\ DEFAULT_CONFIG' = IF l.shared THEN config ELSE DEFAULT_CONFIG
        /\ cfgResult' = [ok |-> TRUE, value |-> config]
        /\ cfgOp' = "processStart"
        /\ UNCHANGED cfgFile
        /\ UNCHANGED <<schedVars, pmVars, scanVars, argVars>>

ConfigNext ==
    \/ \E raw \in ConfigObjects : EditFile(raw)
    \/ DeleteFile
    \/ LoadConfig
    \/ \E key \in ConfigKeys : \E value \in ConfigValues(key) :
          SetConfigValue(key, value)
    \/ \E updates \in ConfigObjects : UpdateConfig(updates)
    \/ ValidateConfigFile
    \/ \E luaFiles \in {"[]"} \cup ConfigValues("luaFiles") :
          ProcessStartAssign(luaFiles)

\* the module as loaded, no config file in the project
ConfigInit ==
    /\ maxRetries = CtorMaxRetries(0)
    /\ timer = Null
    /\ retryCount = 0
    /\ activeTimers = {}
    /\ nextTimer = 1
    /\ inTick = 0
    /\ inStop = 0
    /\ inOnError = 0
    /\ tickCalls = 0
    /\ errCalls = 0
    /\ escaped = 0
    /\ starts = 0
    /\ allFailed = TRUE
    /\ userStopped = FALSE
    /\ hadSuccess = FALSE
    /\ failsSinceSuccess = 0
    /\ stopSinceSuccess = FALSE
    /\ failsBeforeSuccess = 0
    /\ rejected = FALSE
    /\ lastOp = "init"
    /\ process = Null
    /\ processName = NoName
    /\ processState = NoState
    /\ children = <<>>
    /\ file = NoRecord
    /\ pending = NoPending
    /\ hostUp = TRUE
    /\ invocation = 1
    /\ startedIn = 0
    /\ lastOpt = NoName
    /\ lastCfg = NoName
    /\ lastArgs = <<>>
    /\ pmOp = "init"
    /\ pmResult = "none"
    /\ fs = {}
    /\ scanBad = {}
    /\ scanResult = NoScan
    /\ scanOp = "init"
    /\ argOptions = NoOptions
    /\ argConfig = NoArgConfig
    /\ argList = <<>>
    /\ argOp = "init"
    /\ DEFAULT_CONFIG = DefaultConfig
    /\ cfgFile = NoFile
    /\ cfgOp = "init"
    /\ cfgResult = NoLoad

\* the ConfigManager calls of one node process
ConfigSpec == ConfigInit /\ [][ConfigNext]_vars

(***************************************************************************)
(* Properties of Schedule                                                  *)
(***************************************************************************)

\* C1: with maxRetries = N and every evaluate call failing, a started
\* scheduler (first start, no stop() from outside) invokes the tick
\* evaluation exactly N times, then the error handler exactly once, and is
\* then Idle: never more than N tick evaluations, never more than one
\* error-handler evaluation, and the error handler only after N tick
\* evaluations and with the scheduler Idle.
C1_RetryBound ==
    (starts = 1 /\ allFailed /\ ~userStopped) =>
        /\ tickCalls <= maxRetries
        /\ errCalls <= 1
        /\ (errCalls = 1 => tickCalls = maxRetries /\ ~isRunning)

\* C2: start() on a Running scheduler is rejected and changes nothing; there
\* is never a second installed interval, so after a stop() none is installed.
C2_StartWhileRunning ==
    [][ /\ (isRunning => lastOp' # "start")
        /\ (lastOp' = "startRejected" =>
              UNCHANGED <<timer, retryCount, activeTimers, nextTimer,
                          inTick, inStop, inOnError, tickCalls, errCalls>>)
        /\ Cardinality(activeTimers') <= 1
        /\ (lastOp' \in {"stop", "stopIdle"} => activeTimers' = {})
      ]_vars

C2_Witness ==
    /\ lastOp = "stop"
    /\ rejected
    /\ activeTimers = {}

\* C3: a successful tick evaluation sets the failure counter to zero, and
\* after a success an escalation needs maxRetries failures in a row: none
\* happens with fewer, and the first one happens exactly at the
\* maxRetries-th failure when the scheduler was not stopped in between.
C3_Recovery ==
    [][ /\ (lastOp' = "tickOk" => retryCount' = 0)
        /\ (hadSuccess /\ lastOp' = "escalate" =>
              failsSinceSuccess' >= maxRetries)
        /\ (hadSuccess /\ ~stopSinceSuccess /\ lastOp' = "escalate" =>
              failsSinceSuccess' = maxRetries)
        /\ (hadSuccess /\ ~stopSinceSuccess /\ lastOp' = "tickFail" =>
              failsSinceSuccess' < maxRetries)
      ]_vars

C3_Witness ==
    /\ lastOp = "escalate"
    /\ hadSuccess
    /\ failsBeforeSuccess > 0
    /\ failsBeforeSuccess < maxRetries
    /\ failsSinceSuccess = maxRetries

\* C4: Idle when constructed; start() in Idle installs the interval and makes
\* the scheduler Running; stop() in Running clears the interval, zeroes the
\* failure counter and makes it Idle; stop() in Idle changes neither the
\* timer nor the counter.
C4_TwoStates ==
    [][ /\ (lastOp = "init" => ~isRunning)
        /\ (lastOp' = "start" =>
              /\ ~isRunning /\ isRunning'
              /\ timer' \notin activeTimers
              /\ activeTimers' = activeTimers \cup {timer'})
        /\ (lastOp' = "stop" =>
              /\ isRunning /\ ~isRunning'
              /\ activeTimers' = activeTimers \ {timer}
              /\ retryCount' = 0)
        /\ (lastOp' = "stopIdle" =>
              /\ ~isRunning
              /\ UNCHANGED <<timer, activeTimers, retryCount>>)
      ]_vars

\* stop() in Running right after failed tick evaluations had been counted
C4_Witness ==
    /\ lastOp = "stop"
    /\ starts = 1
    /\ ~isRunning
    /\ retryCount = 0
    /\ inTick = 0
    /\ failsSinceSuccess > 0
    /\ ~hadSuccess
    /\ errCalls = 0

\* C5: no timer callback ends with a rejection: a failed tick evaluation is
\* caught and counted, a failed error-handler evaluation is caught.
C5_NothingEscapes ==
    [][ /\ escaped' = 0
        /\ (lastOp' = "tickFail" => retryCount' = retryCount + 1)
        /\ (lastOp' = "onErrorFail" => inOnError' = inOnError - 1)
      ]_vars

C5_Witness ==
    /\ lastOp = "onErrorFail"
    /\ allFailed
    /\ inOnError = 0

\* C6: stop() starts nothing and aborts nothing: the evaluations in flight
\* stay in flight, and while the scheduler is Idle no tick evaluation starts.
C6_StopCancelsFutureOnly ==
    [][ /\ (lastOp' \in {"stop", "stopIdle"} =>
              UNCHANGED <<inTick, inStop, inOnError, tickCalls, errCalls>>)
        /\ (~isRunning => tickCalls' = tickCalls)
      ]_vars

\* an evaluation that was in flight at stop() completes while Idle
C6_Witness ==
    /\ lastOp = "tickOk"
    /\ ~isRunning
    /\ userStopped
    /\ starts = 1
    /\ errCalls = 0

(***************************************************************************)
(* Properties of ProcessManager                                            *)
(***************************************************************************)

\* the handle of the most recent spawn
LastChild == Len(children)

C8_StopIdempotent ==
    [][ /\ (pmOp' \in {"stop", "stopNoop", "stopAgain"} =>
              pmResult' = "resolved")
        /\ (pmOp' = "stopNoop" =>
              /\ process = Null
              /\ UNCHANGED <<process, processName, processState, children,
                             file, pending, hostUp>>)
        /\ (pmOp' = "stopAgain" =>
              UNCHANGED <<process, processName, processState, children,
                          file, pending, hostUp>>)
      ]_vars

\* a second stopProcess() right after one that stopped a started process
C8_Witness ==
    /\ pmOp = "stopAgain"
    /\ LastChild > 0
    /\ children[LastChild].kills = 1
    /\ children[LastChild].killed
    /\ processState.status = "stopped"

\* C9: isProcessRunning() is false before any start and after every
\* stopProcess(); it returns true exactly when a handle is tracked whose
\* `killed` flag is not set, and it changes no state.
C9_IsProcessRunning ==
    [][ /\ (pmOp = "init" => ~isProcessRunning(process, children))
        /\ (pmOp' \in {"stop", "stopNoop", "stopAgain"} =>
              ~isProcessRunning(process', children'))
        /\ (pmOp' = "isRunning" =>
              /\ pmResult' = (\E h \in DOMAIN children :
                                 h = process /\ ~children[h].killed)
              /\ UNCHANGED <<process, processName, processState, children,
                             file, pending, hostUp>>)
      ]_vars

\* the query answers false for a tracked handle that is marked killed
C9_Witness ==
    /\ pmOp = "isRunning"
    /\ process # Null
    /\ children[process].killed
    /\ pmResult = FALSE

\* C10: stopProcess() with a tracked handle calls kill() on that handle
\* (which signals the child if it still runs), clears the tracked handle and
\* sets the status of the existing ProcessState to 'stopped'.
C10_StopTracked ==
    [][ (process # Null /\ pmOp' \in {"stop", "stopAgain"}) =>
          /\ children'[process].kills = children[process].kills + 1
          /\ (children[process].alive => children'[process].killed)
          /\ \A h \in DOMAIN children : h # process => children'[h] = children[h]
          /\ process' = Null
          /\ (processState # NoState => processState'.status = "stopped")
      ]_vars

\* a running, tracked process has just been stopped
C10_Witness ==
    /\ pmOp = "stop"
    /\ process = Null
    /\ processState.status = "stopped"
    /\ \E h \in DOMAIN children :
          children[h].alive /\ children[h].killed /\ children[h].kills = 1

\* the name the fallback chain options.name -> config.processName ->
\* 'default' gives for the last start call
ExpectedName ==
    IF lastOpt # NoName THEN lastOpt
    ELSE IF lastCfg # NoName THEN lastCfg
    ELSE DefaultName

\* C11: on every start the process name is options.name, else
\* config.processName, else 'default'; it is the first positional launch
\* argument, the ProcessState id and the name of the persisted record.
C11_NameFallback ==
    /\ (pmOp = "startBegin" =>
          /\ lastArgs # <<>>
          /\ lastArgs[1] = ExpectedName
          /\ processState.id = ExpectedName
          /\ pending.record.name = ExpectedName)
    /\ (pmOp = "startDone" => file.name = ExpectedName)

\* C12: a start with a name supplied and a spawn that returned pid p leaves
\* the record with pid = p and name = the supplied name.
C12_RecordPidAndName ==
    (/\ pmOp = "startDone"
     /\ (lastOpt # NoName \/ lastCfg # NoName)
     /\ children[LastChild].pid # NoPid) =>
        /\ file.pid = children[LastChild].pid
        /\ file.name = (IF lastOpt # NoName THEN lastOpt ELSE lastCfg)

\* startAOProcess(path, {processName: 'cfg'}, {}) has completed
C12_Witness ==
    /\ pmOp = "startDone"
    /\ lastOpt = NoName
    /\ lastCfg = "cfg"
    /\ children[LastChild].pid > 0
    /\ file = [name |-> "cfg", pid |-> children[LastChild].pid]

\* C13: the tracked handle is cleared when the supervised process exits: a
\* tracked handle of a completed start belongs to a process that still runs
\* (so isProcessRunning() is false once the process has exited).
C13_HandleClearedOnExit ==
    (process # Null /\ pending = NoPending /\ children[process].pid # NoPid) =>
        children[process].alive

\* C14: a process-exit event leaves the ProcessState status 'stopped'; a
\* spawn-error event leaves it 'error' with the error appended to the
\* errors list.
C14_EventsDriveState ==
    /\ (pmOp = "close" => processState.status = "stopped")
    /\ (pmOp = "spawnError" =>
          /\ processState.status = "error"
          /\ processState.errors > 0)

\* C15: a start whose binary is not found still resolves with the handle:
\* once the spawn error went through the 'error' listener, the call has
\* returned or the CLI process is alive to let it return.
C15_ResolvesDespiteSpawnError ==
    \A h \in DOMAIN children :
        (children[h].pid = NoPid /\ ~children[h].errorPending) =>
            (hostUp \/ pending.handle # h)

\* the launched processes that run and have not been sent a signal
Live == {h \in DOMAIN children : children[h].alive /\ ~children[h].killed}

\* C16: at most one launched process is alive, and a live launched process
\* is the one the tracked handle refers to.
C16_OneSupervisedProcess ==
    /\ Cardinality(Live) <= 1
    /\ \A h \in Live : process = h

(***************************************************************************)
(* Properties of findLuaFiles                                              *)
(***************************************************************************)

\* the files named *.lua all of whose ancestor directories below the root
\* have names that do not start with '.', as paths relative to the root
VisibleLuaFiles ==
    {e.path : e \in
        {x \in fs :
            /\ x.kind = "file"
            /\ EndsWith(x.path[Len(x.path)], DotLua)
            /\ \A k \in 1..(Len(x.path) - 1) : ~StartsWith(x.path[k], Dot)}}

\* the directories a scan reads: the root and the directories all of whose
\* names from the root down do not start with '.'
VisitedDirs ==
    {d \in Dirs : \A k \in 1..Len(d) : ~StartsWith(d[k], Dot)}

\* C17: a scan that meets no error returns exactly the *.lua files in the
\* root or under chains of non-hidden directories, each once, as paths
\* relative to the root.
C17_ScanFindsLuaFiles ==
    (scanOp = "scan" /\ ~scanResult.raised) =>
        /\ {scanResult.files[i] : i \in DOMAIN scanResult.files}
              = VisibleLuaFiles
        /\ Len(scanResult.files) = Cardinality(VisibleLuaFiles)

\* a scan of a tree with a nested match and a match under a hidden directory
C17_Witness ==
    /\ scanOp = "scan"
    /\ ~scanResult.raised
    /\ \E e \in fs : e.kind = "file" /\ Len(e.path) = 2
                     /\ e.path \in VisibleLuaFiles
                     /\ scanResult.files = <<e.path>>
    /\ \E e \in fs : e.kind = "file" /\ Len(e.path) = 2
                     /\ EndsWith(e.path[2], DotLua)
                     /\ StartsWith(e.path[1], Dot)

\* C18: a scan that meets a traversal error returns the empty list and does
\* not raise.
C18_TraversalErrorGivesEmptyList ==
    (scanOp = "scan" /\ scanBad \cap VisitedDirs # {}) =>
        scanResult = [raised |-> FALSE, files |-> <<>>]

\* C19: a stop command run in an invocation later than the one whose start
\* launched the process sends a termination signal to that process if it
\* still runs.
C19_StopSignalsStartedProcess ==
    [][(/\ pmOp' \in {"stop", "stopAgain", "stopNoop"}
        /\ startedIn # 0
        /\ invocation > startedIn
        /\ LastChild \in Live)
       => children'[LastChild].kills > children[LastChild].kills]_vars

\* C20: a list command reports a process only while that process runs: a
\* reported record names the pid of a launched process that is alive and
\* has not been signalled to stop.
C20_ListReportsRunningOnly ==
    (pmOp = "list" /\ pmResult # NoRecord) =>
        \E h \in Live : children[h].pid = pmResult.pid

\* C23: there is no in-flight guard: a firing of the timer while a tick
\* evaluation is still in flight starts one more evaluation, so two
\* evaluations of one Schedule are in flight together.
C23_FireOverlaps ==
    [][(lastOp' = "fire" /\ tickCalls' = tickCalls + 1 /\ inTick > 0)
       => inTick' = inTick + 1]_vars

\* the timer fired while an evaluation was in flight: two are in flight
C23_Witness == lastOp = "fire" /\ inTick >= 2 /\ timer # Null

\* C24: when the error-handler action is invoked the scheduler has been
\* stopped: isRunning() is false and the counter is 0.
C24_StoppedBeforeErrorHandler ==
    [][lastOp' = "invokeOnError" /\ errCalls' = errCalls + 1
       => (timer' = Null /\ retryCount' = 0)]_vars

\* C26: whenever the scheduler is Idle its consecutive-failure counter is 0,
\* also after evaluations that were in flight at stop() completed.
C26_IdleCounterZero == ~isRunning => retryCount = 0

\* C27: the error-handler action is invoked at most once per start(): the
\* invocations made so far never outnumber the successful start() calls.
C27_OneErrorHandlerPerStart == errCalls <= starts

\* C28: the exit of a process that a later start replaced leaves the
\* ProcessState of the currently tracked process as it is.
C28_ReplacedProcessEventsIgnored ==
    [][\A h \in DOMAIN children :
         (/\ pmOp' = "close"
          /\ children[h].alive /\ ~children'[h].alive
          /\ process # Null /\ h # process)
         => processState' = processState]_vars

\* C29: after a start call rejected, the handle that call spawned is not
\* tracked and the process it launched does not run.
C29_RejectedStartLeavesNothing ==
    pmOp = "startFailed" => (process # LastChild /\ LastChild \notin Live)

(***************************************************************************)
(* Properties of the argument list                                         *)
(***************************************************************************)

\* the positions of args at which item x stands
Positions(args, x) == {i \in DOMAIN args : args[i] = x}

\* flag stands in args exactly once and value v directly follows it
HasPair(args, flag, v) ==
    /\ Cardinality(Positions(args, flag)) = 1
    /\ \A i \in Positions(args, flag) : i < Len(args) /\ args[i + 1] = v

\* the items that directly follow the occurrences of '--load', in order
RECURSIVE Loaded(_)
Loaded(args) ==
    IF Len(args) < 2 THEN <<>>
    ELSE IF Head(args) = "--load"
         THEN <<args[2]>> \o Loaded(SubSeq(args, 3, Len(args)))
         ELSE Loaded(Tail(args))

\* a value option and its flag: the pair is there iff the option is set
ValueRule(args, flag, v) ==
    IF v # NoName THEN HasPair(args, flag, v)
    ELSE Positions(args, flag) = {}

\* a boolean option and its flag: the flag is there once iff the option is set
SwitchRule(args, flag, b) ==
    Cardinality(Positions(args, flag)) = (IF b THEN 1 ELSE 0)

\* the number of items the presence rules account for
RuleLength(o, c) ==
    Len(NameArgs(o.name, c.processName))
    + 2 * Cardinality({v \in {o.wallet, o.data, o.module, o.cron,
                              o.gatewayUrl, o.cuUrl, o.muUrl} : v # NoName})
    + 2 * Len(c.luaFiles)
    + (IF o.tagName # NoName /\ o.tagValue # NoName THEN 4 ELSE 0)
    + (IF o.monitor THEN 1 ELSE 0) + (IF o.sqlite THEN 1 ELSE 0)

C21_LoadOverlaysDefaults ==
    cfgOp = "load" =>
        IF ~cfgFile.exists THEN cfgResult.value = DEFAULT_CONFIG
        ELSE SchemaAccepts(cfgFile.raw) =>
               \A k \in DOMAIN DEFAULT_CONFIG :
                  /\ k \in DOMAIN cfgResult.value
                  /\ cfgResult.value[k] =
                        IF k \in DOMAIN cfgFile.raw /\ k \in DOMAIN SchemaDefault
                        THEN cfgFile.raw[k] ELSE DEFAULT_CONFIG[k]

\* C22: validateConfigFile on an existing file returns true when the file's
\* content passes validation and false when it fails validation.
C22_ValidateReportsFile ==
    (cfgOp = "validate" /\ cfgFile.exists) =>
        (cfgResult.ok <=> SchemaAccepts(cfgFile.raw))

\* C30: no operation modifies the shared DEFAULT_CONFIG object.
C30_DefaultConfigUnmodified == DEFAULT_CONFIG = DefaultConfig

====
